---- MODULE Spec2Model ----
(***************************************************************************)
(* Model of the HD44780 LCD driver of src/lcd.go (package hd44780).        *)
(*                                                                         *)
(* One display session (type Lcd) talks to the controller through an I2C   *)
(* byte sink.  Every public method is one action that runs the whole       *)
(* method; the bytes the method hands to the transport are recorded in tx. *)
(* The transport is the environment: each call of WriteBytes either        *)
(* accepts its byte or fails, as chosen by the set of failing call indices *)
(* drawn for the method call.  Delays are recorded in microseconds.        *)
(* Texts are sequences of ASCII character codes.                           *)
(*                                                                         *)
(* Spec is the session with all its methods; MsgSpec is the session with   *)
(* the cursor and text methods and longer messages; LayoutSpec applies the *)
(* text layout (splitText) to each display type, text and option value.    *)
(***************************************************************************)
EXTENDS Integers, Sequences, FiniteSets, TLC

VARIABLES pc, constructed, lcd, op, args, result, retN, tx, recent, layout

vars == <<pc, constructed, lcd, op, args, result, retN, tx, recent, layout>>

(***************************************************************************)
(* Bounds of the model.                                                    *)
(***************************************************************************)
\* Transport calls of one method call that may be chosen to fail: 1..MaxFailAt.
MaxFailAt == 4
\* Transport calls of NewLcd that may be chosen to fail (NewLcd makes 54).
MaxInitFailAt == 54
\* Transport calls of SetPosition that may be chosen to fail: 1..MaxPosFailAt.
MaxPosFailAt == 1
\* Transport calls of Write, ShowMessage and Fill that may be chosen to fail.
MaxSeqFailAt == 7
\* Lines tried by SetPosition: -1..MaxLine.
MaxLine == 4
\* Longest buffer handed to Write.
MaxBufLen == 2
\* Longest text handed to the layout: one character more than the 80 cells of
\* the larger display.
MaxTextLen == 81

(***************************************************************************)
(* Constants of src/lcd.go.                                                *)
(***************************************************************************)
CMD_Clear_Display == 1
CMD_Return_Home == 2
CMD_Entry_Mode == 4
CMD_Display_Control == 8
CMD_Cursor_Shift == 16
CMD_Function_Set == 32
CMD_CGRAM_Set == 64
CMD_DDRAM_Set == 128

OPT_EntryLeft == 2
OPT_Enable_Display == 4
OPT_Disable_Cursor == 0
OPT_Enable_Cursor == 2
OPT_Disable_Blink == 0
OPT_Enable_Blink == 1
OPT_Display_Move == 8
OPT_Move_Right == 4
OPT_Move_Left == 0
OPT_4Bit_Mode == 0
OPT_2_Lines == 8
OPT_5x8_Dots == 0

PIN_BACKLIGHT == 8
PIN_EN == 4
PIN_RW == 2
PIN_RS == 1

LCD_UNKNOWN == 0
LCD_16x2 == 1
LCD_20x4 == 2

SHOW_NO_OPTIONS == 0
SHOW_LINE_1 == 2
SHOW_LINE_2 == 4
SHOW_LINE_3 == 8
SHOW_LINE_4 == 16
SHOW_ELIPSE_IF_NOT_FIT == 32
SHOW_BLANK_PADDING == 64

\* Error values: nil, the transport's error, the two validation errors of
\* SetPosition, and a run-time panic (index out of range).
nil == "nil"
EIO == "EIO"
ErrPos == "ErrPos"
ErrLine == "ErrLine"
Panic == "panic"

(***************************************************************************)
(* Byte arithmetic: Go's &, |, &^ and << on the type byte.                 *)
(***************************************************************************)
RECURSIVE BitAndN(_, _, _)
BitAndN(a, b, n) ==
    IF n = 0 THEN 0
    ELSE (a % 2) * (b % 2) + 2 * BitAndN(a \div 2, b \div 2, n - 1)

AND(a, b) == BitAndN(a, b, 8)

OR(a, b) == a + b - AND(a, b)

ANDNOT(a, b) == a - AND(a, b)

SHL4(a) == (a * 16) % 256

ToByte(x) == x % 256

(***************************************************************************)
(* Bind(x, F) is F(x) with x evaluated once: Go's  v := x  before the use  *)
(* of v.                                                                   *)
(***************************************************************************)
Bind(x, F(_)) == CHOOSE r \in {F(v) : v \in {x}} : TRUE

(***************************************************************************)
(* The transport.  io.out: the raw transfers accepted so far in this       *)
(* method call, io.calls: the number of WriteBytes calls made, io.bytes:   *)
(* the (data, pins) pairs writeByte transmitted completely, each with the  *)
(* session's activity state at that moment, io.err: what the last call     *)
(* returned.                                                               *)
(***************************************************************************)
NewIO(fails) ==
    [out |-> <<>>, calls |-> 0, bytes |-> <<>>, fails |-> fails, err |-> nil]

WriteBytes(io, item) ==
    IF (io.calls + 1) \in io.fails
    THEN [io EXCEPT !.calls = @ + 1, !.err = EIO]
    ELSE [io EXCEPT !.calls = @ + 1, !.out = Append(@, item), !.err = nil]

\* Mutant: the loop goes on after a failed call.
RECURSIVE MutwriteRawDataSeq(_, _)
MutwriteRawDataSeq(io, seq) ==
    IF seq = <<>> THEN io
    ELSE Bind(WriteBytes(io, Head(seq)), LAMBDA a : MutwriteRawDataSeq(a, Tail(seq)))

RECURSIVE writeRawDataSeq(_, _)
writeRawDataSeq(io, seq) ==
    IF seq = <<>> THEN [io EXCEPT !.err = nil]
    ELSE Bind(WriteBytes(io, Head(seq)), LAMBDA a :
           IF a.err # nil THEN a ELSE writeRawDataSeq(a, Tail(seq)))

writeDataWithStrobe(l, io, data) ==
    LET d == IF l.backlight THEN OR(data, PIN_BACKLIGHT) ELSE data
        seq == << [Data |-> d, Delay |-> 50],
                  [Data |-> OR(d, PIN_EN), Delay |-> l.writeStrobeDelay],
                  [Data |-> d, Delay |-> l.resetStrobeDelay] >>
    IN  writeRawDataSeq(io, seq)

\* Mutant: the low nibble is sent first.
MutwriteByte(l, io, data, controlPins) ==
    Bind(writeDataWithStrobe(l, io, OR(AND(SHL4(data), 240), controlPins)), LAMBDA a :
      IF a.err # nil THEN a
      ELSE Bind(writeDataWithStrobe(l, a, OR(AND(data, 240), controlPins)), LAMBDA b :
             IF b.err # nil THEN b
             ELSE [b EXCEPT !.bytes = Append(@, [data |-> data, pins |-> controlPins,
                                                  active |-> l.active])]))

writeByte(l, io, data, controlPins) ==
    Bind(writeDataWithStrobe(l, io, OR(AND(data, 240), controlPins)), LAMBDA a :
      IF a.err # nil THEN a
      ELSE Bind(writeDataWithStrobe(l, a, OR(AND(SHL4(data), 240), controlPins)), LAMBDA b :
             IF b.err # nil THEN b
             ELSE [b EXCEPT !.bytes = Append(@, [data |-> data, pins |-> controlPins,
                                                  active |-> l.active])]))

\* What a method leaves behind: the session, the transport and its error.
Ret(l, io, err) == [lcd |-> l, io |-> io, err |-> err]

\* writeByte as the last statement of a method on session l.
Send(l, io, data) == Bind(writeByte(l, io, data, 0), LAMBDA a : Ret(l, a, a.err))

(***************************************************************************)
(* Methods without arguments.                                              *)
(***************************************************************************)
\* Mutant: the state is switched on after the byte was transmitted.
MutBacklightOn(l, io) ==
    Bind(writeByte(l, io, 0, 0), LAMBDA a : Ret([l EXCEPT !.backlight = TRUE], a, a.err))

BacklightOn(l, io) == Send([l EXCEPT !.backlight = TRUE], io, 0)

BacklightOff(l, io) == Send([l EXCEPT !.backlight = FALSE], io, 0)

\* Mutant: Clear tests the activity state like ShowMessage.
MutClear(l, io) == IF ~l.active THEN Ret(l, io, nil) ELSE Send(l, io, CMD_Clear_Display)

Clear(l, io) == Send(l, io, CMD_Clear_Display)

\* Mutant: Home transmits nothing.
MutHome(l, io) == Ret(l, io, nil)

Home(l, io) == Send(l, io, CMD_Return_Home)

DisplayOn(l, io) ==
    LET l1 == [l EXCEPT !.displayControl = OR(@, OPT_Enable_Display)]
    IN  Send(l1, io, OR(CMD_Display_Control, l1.displayControl))

DisplayOff(l, io) ==
    LET l1 == [l EXCEPT !.displayControl = ANDNOT(@, OPT_Enable_Display)]
    IN  Send(l1, io, OR(CMD_Display_Control, l1.displayControl))

\* Mutant: the snapshot is overwritten instead of or-ed into.
MutBlinkOn(l, io) ==
    LET l1 == [l EXCEPT !.displayControl = OPT_Enable_Blink]
    IN  Send(l1, io, OR(CMD_Display_Control, l1.displayControl))

BlinkOn(l, io) ==
    LET l1 == [l EXCEPT !.displayControl = OR(@, OPT_Enable_Blink)]
    IN  Send(l1, io, OR(CMD_Display_Control, l1.displayControl))

BlinkOff(l, io) ==
    LET l1 == [l EXCEPT !.displayControl = ANDNOT(@, OPT_Enable_Blink)]
    IN  Send(l1, io, OR(CMD_Display_Control, l1.displayControl))

CursorOn(l, io) ==
    LET l1 == [l EXCEPT !.displayControl = OR(@, OPT_Enable_Cursor)]
    IN  Send(l1, io, OR(CMD_Display_Control, l1.displayControl))

CursorOff(l, io) ==
    LET l1 == [l EXCEPT !.displayControl = ANDNOT(@, OPT_Enable_Cursor)]
    IN  Send(l1, io, OR(CMD_Display_Control, l1.displayControl))

ScrollDisplayLeft(l, io) ==
    Send(l, io, OR(OR(CMD_Cursor_Shift, OPT_Display_Move), OPT_Move_Left))

ScrollDisplayRight(l, io) ==
    Send(l, io, OR(OR(CMD_Cursor_Shift, OPT_Display_Move), OPT_Move_Right))

LeftRightDisplay(l, io) ==
    LET l1 == [l EXCEPT !.displayMode = OR(@, OPT_EntryLeft)]
    IN  Send(l1, io, OR(CMD_Entry_Mode, l1.displayMode))

RightLeftDisplay(l, io) ==
    LET l1 == [l EXCEPT !.displayMode = ANDNOT(@, OPT_EntryLeft)]
    IN  Send(l1, io, OR(CMD_Entry_Mode, l1.displayMode))

(***************************************************************************)
(* Construction: the power-on initialization sequence.                     *)
(***************************************************************************)
\* One step of NewLcd: writeByte, and on success the rest of the sequence.
InitStep(this, io, data, rest(_)) ==
    Bind(writeByte(this, io, data, 0), LAMBDA a :
      IF a.err # nil THEN Ret(this, a, a.err) ELSE rest(a))

NewLcd(io, lcdType) ==
    LET this == [backlight |-> FALSE, lcdType |-> lcdType,
                 writeStrobeDelay |-> 200, resetStrobeDelay |-> 30,
                 active |-> TRUE, displayFunction |-> 0,
                 displayControl |-> 0, displayMode |-> 0]
        t5a == [this EXCEPT !.displayFunction =
                    OR(OR(OPT_2_Lines, OPT_5x8_Dots), OPT_4Bit_Mode)]
        t5b == [t5a EXCEPT !.displayControl =
                    OR(OR(OPT_Enable_Display, OPT_Disable_Cursor), OPT_Disable_Blink)]
        t5c == [t5b EXCEPT !.displayMode = OPT_EntryLeft]
    IN  InitStep(this, io, 3, LAMBDA s1 :
        InitStep(this, s1, 3, LAMBDA s2 :
        InitStep(this, s2, 3, LAMBDA s3 :
        InitStep(this, s3, 2, LAMBDA s4 :
        InitStep(t5a, s4, OR(CMD_Function_Set, t5a.displayFunction), LAMBDA s5a :
        InitStep(t5b, s5a, OR(CMD_Display_Control, t5b.displayControl), LAMBDA s5b :
        InitStep(t5c, s5b, OR(CMD_Entry_Mode, t5c.displayMode), LAMBDA s5c :
        Bind(Clear(t5c, s5c), LAMBDA c :
          IF c.err # nil THEN c ELSE Home(c.lcd, c.io)))))))))

(***************************************************************************)
(* Geometry and cursor positioning.                                        *)
(***************************************************************************)
getSize(l) ==
    IF l.lcdType = LCD_16x2 THEN [width |-> 16, height |-> 2]
    ELSE IF l.lcdType = LCD_20x4 THEN [width |-> 20, height |-> 4]
    ELSE [width |-> -1, height |-> -1]

lineOffset == <<0, 64, 20, 84>>

\* Mutant: the column check is off by one.
MutSetPosition(l, io, line, pos) ==
    IF ~l.active THEN Ret(l, io, nil)
    ELSE LET w == getSize(l).width
             h == getSize(l).height
         IN  IF w # -1 /\ (pos < 0 \/ pos > w) THEN Ret(l, io, ErrPos)
             ELSE IF h # -1 /\ (line < 0 \/ line > h - 1) THEN Ret(l, io, ErrLine)
             ELSE IF line < 0 \/ line >= Len(lineOffset) THEN Ret(l, io, Panic)
             ELSE Send(l, io, ToByte(CMD_DDRAM_Set + lineOffset[line + 1] + ToByte(pos)))

SetPosition(l, io, line, pos) ==
    IF ~l.active THEN Ret(l, io, nil)
    ELSE LET w == getSize(l).width
             h == getSize(l).height
         IN  IF w # -1 /\ (pos < 0 \/ pos > w - 1) THEN Ret(l, io, ErrPos)
             ELSE IF h # -1 /\ (line < 0 \/ line > h - 1) THEN Ret(l, io, ErrLine)
             ELSE IF line < 0 \/ line >= Len(lineOffset) THEN Ret(l, io, Panic)
             ELSE Send(l, io, ToByte(CMD_DDRAM_Set + lineOffset[line + 1] + ToByte(pos)))

(***************************************************************************)
(* Text layout.                                                            *)
(***************************************************************************)
HasFlag(options, flag) == AND(options, flag) # 0

\* Mutant: the range holds as many lines as flags are set.
MutgetLineRange(options) ==
    LET lines == << HasFlag(options, SHOW_LINE_1), HasFlag(options, SHOW_LINE_2),
                    HasFlag(options, SHOW_LINE_3), HasFlag(options, SHOW_LINE_4) >>
        set == {i \in 0..3 : lines[i + 1]}
    IN  IF set = {} THEN [startLine |-> -1, endLine |-> -1]
        ELSE [startLine |-> CHOOSE i \in set : \A k \in set : i <= k,
              endLine |-> (CHOOSE i \in set : \A k \in set : i <= k) + Cardinality(set) - 1]

getLineRange(options) ==
    LET lines == << HasFlag(options, SHOW_LINE_1), HasFlag(options, SHOW_LINE_2),
                    HasFlag(options, SHOW_LINE_3), HasFlag(options, SHOW_LINE_4) >>
        set == {i \in 0..3 : lines[i + 1]}
    IN  IF set = {} THEN [startLine |-> -1, endLine |-> -1]
        ELSE [startLine |-> CHOOSE i \in set : \A k \in set : i <= k,
              endLine |-> CHOOSE i \in set : \A k \in set : i >= k]

Repeat(c, n) == [k \in 1..n |-> c]

\* The chunking loop of splitText on the text left from offset from on: at
\* most n more segments of w characters.
RECURSIVE splitLoop(_, _, _, _, _)
splitLoop(lines, text, from, w, n) ==
    IF n = 0 \/ Len(text) - from = 0 THEN [lines |-> lines, text |-> SubSeq(text, from + 1, Len(text))]
    ELSE LET j == IF w > Len(text) - from THEN Len(text) - from ELSE w
         IN  Bind(Append(lines, SubSeq(text, from + 1, from + j)), LAMBDA ls :
               splitLoop(ls, text, from + j, w, n - 1))

\* Mutant: the last character is replaced also when the text ends exactly
\* with the last segment.
MutsplitText(l, text, options) ==
    LET r == getLineRange(options)
        w == getSize(l).width
    IN  IF w # -1 /\ r.startLine # -1 /\ r.endLine # -1
        THEN Bind(splitLoop(<<>>, text, 0, w, r.endLine - r.startLine + 1), LAMBDA s :
               LET n == Len(s.lines)
               IN  IF Len(s.text) > 0 \/ (n > 0 /\ Len(text) = w * (r.endLine - r.startLine + 1))
                   THEN IF HasFlag(options, SHOW_ELIPSE_IF_NOT_FIT)
                        THEN [lines |-> [s.lines EXCEPT ![n] =
                                  Append(SubSeq(@, 1, Len(@) - 1), 126)],
                              panic |-> FALSE]
                        ELSE [lines |-> s.lines, panic |-> FALSE]
                   ELSE IF HasFlag(options, SHOW_BLANK_PADDING)
                        THEN IF n = 0 THEN [lines |-> <<>>, panic |-> TRUE]
                             ELSE [lines |->
                                     [k \in 1..(r.endLine - r.startLine + 1) |->
                                        IF k < n THEN s.lines[k]
                                        ELSE IF k = n
                                        THEN s.lines[n] \o Repeat(32, w - Len(s.lines[n]))
                                        ELSE Repeat(32, w)],
                                   panic |-> FALSE]
                        ELSE [lines |-> s.lines, panic |-> FALSE])
        ELSE IF Len(text) > 0 THEN [lines |-> <<text>>, panic |-> FALSE]
        ELSE [lines |-> <<>>, panic |-> FALSE]

\* Mutant: the last segment is padded, the unused lines are not filled.
MutPadsplitText(l, text, options) ==
    LET r == getLineRange(options)
        w == getSize(l).width
    IN  IF w # -1 /\ r.startLine # -1 /\ r.endLine # -1
        THEN Bind(splitLoop(<<>>, text, 0, w, r.endLine - r.startLine + 1), LAMBDA s :
               LET n == Len(s.lines)
               IN  IF Len(s.text) > 0
                   THEN IF HasFlag(options, SHOW_ELIPSE_IF_NOT_FIT)
                        THEN [lines |-> [s.lines EXCEPT ![n] =
                                  Append(SubSeq(@, 1, Len(@) - 1), 126)],
                              panic |-> FALSE]
                        ELSE [lines |-> s.lines, panic |-> FALSE]
                   ELSE IF HasFlag(options, SHOW_BLANK_PADDING)
                        THEN IF n = 0 THEN [lines |-> <<>>, panic |-> TRUE]
                             ELSE [lines |->
                                     [k \in 1..n |->
                                        IF k < n THEN s.lines[k]
                                        ELSE IF k = n
                                        THEN s.lines[n] \o Repeat(32, w - Len(s.lines[n]))
                                        ELSE Repeat(32, w)],
                                   panic |-> FALSE]
                        ELSE [lines |-> s.lines, panic |-> FALSE])
        ELSE IF Len(text) > 0 THEN [lines |-> <<text>>, panic |-> FALSE]
        ELSE [lines |-> <<>>, panic |-> FALSE]

\* Result: the segments, and whether the function panicked on lines[-1].
splitText(l, text, options) ==
    LET r == getLineRange(options)
        w == getSize(l).width
    IN  IF w # -1 /\ r.startLine # -1 /\ r.endLine # -1
        THEN Bind(splitLoop(<<>>, text, 0, w, r.endLine - r.startLine + 1), LAMBDA s :
               LET n == Len(s.lines)
               IN  IF Len(s.text) > 0
                   THEN IF HasFlag(options, SHOW_ELIPSE_IF_NOT_FIT)
                        THEN [lines |-> [s.lines EXCEPT ![n] =
                                  Append(SubSeq(@, 1, Len(@) - 1), 126)],
                              panic |-> FALSE]
                        ELSE [lines |-> s.lines, panic |-> FALSE]
                   ELSE IF HasFlag(options, SHOW_BLANK_PADDING)
                        THEN IF n = 0 THEN [lines |-> <<>>, panic |-> TRUE]
                             ELSE [lines |->
                                     [k \in 1..(r.endLine - r.startLine + 1) |->
                                        IF k < n THEN s.lines[k]
                                        ELSE IF k = n
                                        THEN s.lines[n] \o Repeat(32, w - Len(s.lines[n]))
                                        ELSE Repeat(32, w)],
                                   panic |-> FALSE]
                        ELSE [lines |-> s.lines, panic |-> FALSE])
        ELSE IF Len(text) > 0 THEN [lines |-> <<text>>, panic |-> FALSE]
        ELSE [lines |-> <<>>, panic |-> FALSE]

\* Sends the characters of line from index i on to the data register; stops
\* at the first error.
RECURSIVE writeChars(_, _, _, _)
writeChars(l, io, line, i) ==
    IF i >= Len(line) THEN [io EXCEPT !.err = nil]
    ELSE Bind(writeByte(l, io, ToByte(line[i + 1]), PIN_RS), LAMBDA a :
           IF a.err # nil THEN a ELSE writeChars(l, a, line, i + 1))

\* Mutant: segment i is written on line i, whatever the first flagged line.
RECURSIVE MutshowLoop(_, _, _, _, _)
MutshowLoop(l, io, lines, r, i) ==
    Bind(IF r.startLine # -1 /\ r.endLine # -1
         THEN SetPosition(l, io, i, 0)
         ELSE Ret(l, io, nil), LAMBDA p :
      IF p.err # nil THEN p
      ELSE IF i >= Len(lines) THEN Ret(l, p.io, Panic)
      ELSE Bind(writeChars(l, p.io, lines[i + 1], 0), LAMBDA a :
             IF a.err # nil THEN Ret(l, a, a.err)
             ELSE IF i = Len(lines) - 1 THEN Ret(l, a, nil)
             ELSE MutshowLoop(l, a, lines, r, i + 1)))

\* The for loop of ShowMessage, from segment index i on.
RECURSIVE showLoop(_, _, _, _, _)
showLoop(l, io, lines, r, i) ==
    Bind(IF r.startLine # -1 /\ r.endLine # -1
         THEN SetPosition(l, io, i + r.startLine, 0)
         ELSE Ret(l, io, nil), LAMBDA p :
      IF p.err # nil THEN p
      ELSE IF i >= Len(lines) THEN Ret(l, p.io, Panic)
      ELSE Bind(writeChars(l, p.io, lines[i + 1], 0), LAMBDA a :
             IF a.err # nil THEN Ret(l, a, a.err)
             ELSE IF i = Len(lines) - 1 THEN Ret(l, a, nil)
             ELSE showLoop(l, a, lines, r, i + 1)))

\* Mutant: the activity state is not tested.
MutShowMessage(l, io, text, options) ==
    Bind(splitText(l, text, options), LAMBDA s :
      IF s.panic THEN Ret(l, io, Panic)
      ELSE showLoop(l, io, s.lines, getLineRange(options), 0))

ShowMessage(l, io, text, options) ==
    IF ~l.active THEN Ret(l, io, nil)
    ELSE Bind(splitText(l, text, options), LAMBDA s :
           IF s.panic THEN Ret(l, io, Panic)
           ELSE showLoop(l, io, s.lines, getLineRange(options), 0))

(***************************************************************************)
(* Raw access, strobe delays, fill and shutdown.                           *)
(***************************************************************************)
\* The range loop of Write, from index i on: (n, err) with n the index of the
\* byte that failed, or len(buf).
RECURSIVE writeLoop(_, _, _, _)
writeLoop(l, io, buf, i) ==
    IF i >= Len(buf)
    THEN [lcd |-> l, io |-> [io EXCEPT !.err = nil], err |-> nil, n |-> Len(buf)]
    ELSE Bind(writeByte(l, io, buf[i + 1], PIN_RS), LAMBDA a :
           IF a.err # nil THEN [lcd |-> l, io |-> a, err |-> a.err, n |-> i]
           ELSE writeLoop(l, a, buf, i + 1))

Write(l, io, buf) == writeLoop(l, io, buf, 0)

Command(l, io, cmd) == Send(l, io, cmd)

SetStrobeDelays(l, writeDelay, resetDelay) ==
    [l EXCEPT !.writeStrobeDelay = writeDelay, !.resetStrobeDelay = resetDelay]

\* Mutant: the column loop stops one column early.
RECURSIVE MutfillLoop(_, _, _, _, _, _)
MutfillLoop(l, io, char, width, height, lineCount) ==
    IF lineCount >= height THEN Ret(l, io, nil)
    ELSE Bind(SetPosition(l, io, lineCount, 0), LAMBDA p :
           IF p.err # nil THEN p
           ELSE Bind(writeChars(l, p.io, Repeat(char, width - 1), 0), LAMBDA a :
                  IF a.err # nil THEN Ret(l, a, a.err)
                  ELSE MutfillLoop(l, a, char, width, height, lineCount + 1)))

\* The line loop of Fill, from line lineCount on.
RECURSIVE fillLoop(_, _, _, _, _, _)
fillLoop(l, io, char, width, height, lineCount) ==
    IF lineCount >= height THEN Ret(l, io, nil)
    ELSE Bind(SetPosition(l, io, lineCount, 0), LAMBDA p :
           IF p.err # nil THEN p
           ELSE Bind(writeChars(l, p.io, Repeat(char, width), 0), LAMBDA a :
                  IF a.err # nil THEN Ret(l, a, a.err)
                  ELSE fillLoop(l, a, char, width, height, lineCount + 1)))

Fill(l, io, char) ==
    IF ~l.active THEN Ret(l, io, nil)
    ELSE LET width == getSize(l).width
             height == getSize(l).height
         IN  IF width * height <= 1 THEN Ret(l, io, nil)
             ELSE fillLoop(l, io, char, width, height, 0)

\* Mutant: Shutdown gives up at the first step that fails.
MutShutdown(l, io) ==
    Bind(BacklightOff([l EXCEPT !.active = FALSE], io), LAMBDA b :
      IF b.err # nil THEN Ret(b.lcd, b.io, nil)
      ELSE Bind(Clear(b.lcd, b.io), LAMBDA c :
             IF c.err # nil THEN Ret(c.lcd, c.io, nil)
             ELSE Bind(Home(c.lcd, c.io), LAMBDA h : Ret(h.lcd, h.io, nil))))

\* Shutdown returns nothing: the errors of its three steps are dropped.
Shutdown(l, io) ==
    Bind(BacklightOff([l EXCEPT !.active = FALSE], io), LAMBDA b :
    Bind(Clear(b.lcd, b.io), LAMBDA c :
    Bind(Home(c.lcd, c.io), LAMBDA h :
      Ret(h.lcd, h.io, nil))))

(***************************************************************************)
(* Inputs of the method calls.                                             *)
(***************************************************************************)
LcdTypes == {LCD_UNKNOWN, LCD_16x2, LCD_20x4}

\* The transport accepts every byte, or fails at one call among the first max.
FailSets(max) == {{}} \cup {{k} : k \in 1..max}

\* During Shutdown any of these calls may fail: with them each of the three
\* steps fails or succeeds independently of the other two.
ShutdownFailSets == SUBSET {1, 2, 3, 7, 13}

Lines == -1..MaxLine

Positions == {-1, 0, 15, 16, 19, 20}

Text(n) == [k \in 1..n |-> 65 + ((k - 1) % 26)]

Texts == {Text(0), Text(2)}

Options == {SHOW_NO_OPTIONS, SHOW_LINE_1, SHOW_LINE_3, SHOW_LINE_1 + SHOW_BLANK_PADDING}

BufBytes == {65, 245}

Bufs == UNION {[1..n -> BufBytes] : n \in 0..MaxBufLen}

CmdBytes == {CMD_Clear_Display, 4, 15}

Chars == {42, 321}

StrobeDelays == {<<200, 30>>, <<1, 65535>>}

(***************************************************************************)
(* State.  pc = "call": the session is idle and the caller may call a      *)
(* method; pc = "ret": the method op has run with arguments args, and      *)
(* result, retN and tx hold what it returned and what it transmitted.      *)
(* recent remembers, for each bit of the display-control register, whether *)
(* the last method called on it was its On variant.  layout holds the      *)
(* segments the text layout of the last ShowMessage produced (its local    *)
(* lines), and whether the layout ended in a run-time panic.               *)
(***************************************************************************)
NoLcd == [backlight |-> FALSE, lcdType |-> LCD_UNKNOWN,
          writeStrobeDelay |-> 0, resetStrobeDelay |-> 0,
          active |-> FALSE, displayFunction |-> 0,
          displayControl |-> 0, displayMode |-> 0]

NoArgs == [lcdType |-> 0, line |-> 0, pos |-> 0, text |-> <<>>, options |-> 0,
           buf |-> <<>>, cmd |-> 0, char |-> 0, writeDelay |-> 0, resetDelay |-> 0,
           fails |-> {}]

NoTx == [out |-> <<>>, calls |-> 0, bytes |-> <<>>]

NoRecent == [display |-> FALSE, cursor |-> FALSE, blink |-> FALSE]

NoLayout == [lines |-> <<>>, panic |-> FALSE]

Init ==
    /\ pc = "call"
    /\ constructed = FALSE
    /\ lcd = NoLcd
    /\ op = "none"
    /\ args = NoArgs
    /\ result = nil
    /\ retN = 0
    /\ tx = NoTx
    /\ recent = NoRecent
    /\ layout = NoLayout

\* The method name has run with arguments a and left r behind.
Returned(name, a, r) ==
    /\ pc' = "ret"
    /\ op' = name
    /\ args' = a
    /\ lcd' = r.lcd
    /\ result' = r.err
    /\ tx' = [out |-> r.io.out, calls |-> r.io.calls, bytes |-> r.io.bytes]
    /\ layout' = IF name = "ShowMessage" /\ lcd.active
                 THEN splitText(lcd, a.text, a.options)
                 ELSE NoLayout

Idle == pc = "call" /\ constructed

CallNewLcd ==
    /\ pc = "call" /\ ~constructed
    /\ \E t \in LcdTypes, F \in FailSets(MaxInitFailAt) :
         LET r == NewLcd(NewIO(F), t)
             ok == r.err = nil
         IN  /\ Returned("NewLcd", [NoArgs EXCEPT !.lcdType = t, !.fails = F],
                         IF ok THEN r ELSE [r EXCEPT !.lcd = NoLcd])
             /\ constructed' = ok
             /\ recent' = IF ok THEN [display |-> TRUE, cursor |-> FALSE, blink |-> FALSE]
                          ELSE NoRecent
    /\ retN' = 0

\* A method without arguments and with a single error result.
CallPlain(name, r, F) ==
    /\ Returned(name, [NoArgs EXCEPT !.fails = F], r)
    /\ retN' = 0
    /\ UNCHANGED constructed

CallBacklightOn ==
    /\ Idle
    /\ \E F \in FailSets(MaxFailAt) : CallPlain("BacklightOn", BacklightOn(lcd, NewIO(F)), F)
    /\ UNCHANGED recent

CallBacklightOff ==
    /\ Idle
    /\ \E F \in FailSets(MaxFailAt) : CallPlain("BacklightOff", BacklightOff(lcd, NewIO(F)), F)
    /\ UNCHANGED recent

CallClear ==
    /\ Idle
    /\ \E F \in FailSets(MaxFailAt) : CallPlain("Clear", Clear(lcd, NewIO(F)), F)
    /\ UNCHANGED recent

CallHome ==
    /\ Idle
    /\ \E F \in FailSets(MaxFailAt) : CallPlain("Home", Home(lcd, NewIO(F)), F)
    /\ UNCHANGED recent

CallDisplayOn ==
    /\ Idle
    /\ \E F \in FailSets(MaxFailAt) : CallPlain("DisplayOn", DisplayOn(lcd, NewIO(F)), F)
    /\ recent' = [recent EXCEPT !.display = TRUE]

CallDisplayOff ==
    /\ Idle
    /\ \E F \in FailSets(MaxFailAt) : CallPlain("DisplayOff", DisplayOff(lcd, NewIO(F)), F)
    /\ recent' = [recent EXCEPT !.display = FALSE]

CallBlinkOn ==
    /\ Idle
    /\ \E F \in FailSets(MaxFailAt) : CallPlain("BlinkOn", BlinkOn(lcd, NewIO(F)), F)
    /\ recent' = [recent EXCEPT !.blink = TRUE]

CallBlinkOff ==
    /\ Idle
    /\ \E F \in FailSets(MaxFailAt) : CallPlain("BlinkOff", BlinkOff(lcd, NewIO(F)), F)
    /\ recent' = [recent EXCEPT !.blink = FALSE]

CallCursorOn ==
    /\ Idle
    /\ \E F \in FailSets(MaxFailAt) : CallPlain("CursorOn", CursorOn(lcd, NewIO(F)), F)
    /\ recent' = [recent EXCEPT !.cursor = TRUE]

CallCursorOff ==
    /\ Idle
    /\ \E F \in FailSets(MaxFailAt) : CallPlain("CursorOff", CursorOff(lcd, NewIO(F)), F)
    /\ recent' = [recent EXCEPT !.cursor = FALSE]

CallScrollDisplayLeft ==
    /\ Idle
    /\ \E F \in FailSets(MaxFailAt) :
         CallPlain("ScrollDisplayLeft", ScrollDisplayLeft(lcd, NewIO(F)), F)
    /\ UNCHANGED recent

CallScrollDisplayRight ==
    /\ Idle
    /\ \E F \in FailSets(MaxFailAt) :
         CallPlain("ScrollDisplayRight", ScrollDisplayRight(lcd, NewIO(F)), F)
    /\ UNCHANGED recent

CallLeftRightDisplay ==
    /\ Idle
    /\ \E F \in FailSets(MaxFailAt) :
         CallPlain("LeftRightDisplay", LeftRightDisplay(lcd, NewIO(F)), F)
    /\ UNCHANGED recent

CallRightLeftDisplay ==
    /\ Idle
    /\ \E F \in FailSets(MaxFailAt) :
         CallPlain("RightLeftDisplay", RightLeftDisplay(lcd, NewIO(F)), F)
    /\ UNCHANGED recent

CallSetPosition ==
    /\ Idle
    /\ \E line \in Lines, pos \in Positions, F \in FailSets(MaxPosFailAt) :
         Returned("SetPosition", [NoArgs EXCEPT !.line = line, !.pos = pos, !.fails = F],
                  SetPosition(lcd, NewIO(F), line, pos))
    /\ retN' = 0
    /\ UNCHANGED <<constructed, recent>>

CallShowMessage ==
    /\ Idle
    /\ \E text \in Texts, options \in Options, F \in FailSets(MaxSeqFailAt) :
         Returned("ShowMessage",
                  [NoArgs EXCEPT !.text = text, !.options = options, !.fails = F],
                  ShowMessage(lcd, NewIO(F), text, options))
    /\ retN' = 0
    /\ UNCHANGED <<constructed, recent>>

CallWrite ==
    /\ Idle
    /\ \E buf \in Bufs, F \in FailSets(MaxSeqFailAt) :
         LET r == Write(lcd, NewIO(F), buf)
         IN  /\ Returned("Write", [NoArgs EXCEPT !.buf = buf, !.fails = F], r)
             /\ retN' = r.n
    /\ UNCHANGED <<constructed, recent>>

CallCommand ==
    /\ Idle
    /\ \E cmd \in CmdBytes, F \in FailSets(MaxFailAt) :
         Returned("Command", [NoArgs EXCEPT !.cmd = cmd, !.fails = F],
                  Command(lcd, NewIO(F), cmd))
    /\ retN' = 0
    /\ UNCHANGED <<constructed, recent>>

CallSetStrobeDelays ==
    /\ Idle
    /\ \E d \in StrobeDelays :
         Returned("SetStrobeDelays",
                  [NoArgs EXCEPT !.writeDelay = d[1], !.resetDelay = d[2]],
                  Ret(SetStrobeDelays(lcd, d[1], d[2]), NewIO({}), nil))
    /\ retN' = 0
    /\ UNCHANGED <<constructed, recent>>

CallFill ==
    /\ Idle
    /\ \E char \in Chars, F \in FailSets(MaxSeqFailAt) :
         Returned("Fill", [NoArgs EXCEPT !.char = char, !.fails = F],
                  Fill(lcd, NewIO(F), char))
    /\ retN' = 0
    /\ UNCHANGED <<constructed, recent>>

CallShutdown ==
    /\ Idle
    /\ \E F \in ShutdownFailSets :
         Returned("Shutdown", [NoArgs EXCEPT !.fails = F], Shutdown(lcd, NewIO(F)))
    /\ retN' = 0
    /\ UNCHANGED <<constructed, recent>>

\* The caller takes the result and may call again; a panic ends the program.
Return ==
    /\ pc = "ret"
    /\ result # Panic
    /\ pc' = "call"
    /\ op' = "none"
    /\ args' = NoArgs
    /\ result' = nil
    /\ retN' = 0
    /\ tx' = NoTx
    /\ layout' = NoLayout
    /\ UNCHANGED <<constructed, lcd, recent>>

Next ==
    \/ CallNewLcd
    \/ CallShowMessage
    \/ CallBacklightOn
    \/ CallBacklightOff
    \/ CallClear
    \/ CallHome
    \/ CallDisplayOn
    \/ CallDisplayOff
    \/ CallBlinkOn
    \/ CallBlinkOff
    \/ CallCursorOn
    \/ CallCursorOff
    \/ CallScrollDisplayLeft
    \/ CallScrollDisplayRight
    \/ CallLeftRightDisplay
    \/ CallRightLeftDisplay
    \/ CallSetPosition
    \/ CallWrite
    \/ CallCommand
    \/ CallSetStrobeDelays
    \/ CallFill
    \/ CallShutdown
    \/ Return

Spec == Init /\ [][Next]_vars

(***************************************************************************)
(* The message specification: the same session with the operations that    *)
(* position the cursor and write text, and with messages long enough to    *)
(* wrap over several lines of either display.                              *)
(***************************************************************************)
MsgTexts == {Text(n) : n \in {0, 2, 17, 21}}

MsgOptions ==
    { SHOW_NO_OPTIONS,
      SHOW_BLANK_PADDING,
      SHOW_LINE_1,
      SHOW_LINE_4,
      SHOW_LINE_1 + SHOW_LINE_2,
      SHOW_LINE_1 + SHOW_LINE_3,
      SHOW_LINE_2 + SHOW_LINE_3,
      SHOW_LINE_3 + SHOW_LINE_4,
      SHOW_LINE_1 + SHOW_LINE_2 + SHOW_LINE_3 + SHOW_LINE_4,
      SHOW_LINE_1 + SHOW_LINE_2 + SHOW_LINE_3 + SHOW_LINE_4 + SHOW_BLANK_PADDING,
      SHOW_LINE_1 + SHOW_LINE_2 + SHOW_ELIPSE_IF_NOT_FIT,
      SHOW_LINE_1 + SHOW_LINE_2 + SHOW_BLANK_PADDING,
      SHOW_LINE_2 + SHOW_LINE_3 + SHOW_BLANK_PADDING }

CallShowMessageLong ==
    /\ Idle
    /\ \E text \in MsgTexts, options \in MsgOptions, F \in FailSets(MaxSeqFailAt) :
         Returned("ShowMessage",
                  [NoArgs EXCEPT !.text = text, !.options = options, !.fails = F],
                  ShowMessage(lcd, NewIO(F), text, options))
    /\ retN' = 0
    /\ UNCHANGED <<constructed, recent>>

MsgNext ==
    \/ CallNewLcd
    \/ CallShowMessageLong
    \/ CallSetPosition
    \/ CallFill
    \/ CallBacklightOn
    \/ CallBacklightOff
    \/ CallShutdown
    \/ Return

MsgSpec == Init /\ [][MsgNext]_vars

(***************************************************************************)
(* The layout specification: splitText as a function of the display type,  *)
(* the text and the options, applied once to each input.                   *)
(***************************************************************************)
LayoutTexts == {Text(n) : n \in 0..MaxTextLen}

\* Every combination of the four line flags and the two layout options.
LayoutOptions == {2 * k : k \in 0..63}

LayoutInit ==
    /\ pc = "call"
    /\ constructed = TRUE
    /\ \E t \in LcdTypes : lcd = NewLcd(NewIO({}), t).lcd
    /\ op = "none"
    /\ \E text \in LayoutTexts, options \in LayoutOptions :
         args = [NoArgs EXCEPT !.text = text, !.options = options]
    /\ result = nil
    /\ retN = 0
    /\ tx = NoTx
    /\ recent = [display |-> TRUE, cursor |-> FALSE, blink |-> FALSE]
    /\ layout = NoLayout

CallsplitText ==
    /\ pc = "call"
    /\ op = "none"
    /\ pc' = "ret"
    /\ op' = "splitText"
    /\ layout' = splitText(lcd, args.text, args.options)
    /\ result' = IF layout'.panic THEN Panic ELSE nil
    /\ UNCHANGED <<constructed, lcd, args, retN, tx, recent>>

LayoutNext == CallsplitText

LayoutSpec == LayoutInit /\ [][LayoutNext]_vars

(***************************************************************************)
(* Vocabulary of the properties.                                           *)
(***************************************************************************)
\* The method name has just returned.
Done(name) == pc = "ret" /\ op = name

Supported == lcd.lcdType \in {LCD_16x2, LCD_20x4}

WidthOf(t) == IF t = LCD_16x2 THEN 16 ELSE 20

HeightOf(t) == IF t = LCD_16x2 THEN 2 ELSE 4

\* No transport call of the first n of this method call was chosen to fail.
NoFailureIn(n) == args.fails \cap (1..n) = {}

\* The six raw transfers of one byte: high nibble, then low nibble, each
\* presented, strobed high and strobed low, with backlight bit bl.
NibbleFrame(nib, pins, bl, wd, rd) ==
    << [Data |-> 16 * nib + pins + bl, Delay |-> 50],
       [Data |-> 16 * nib + pins + bl + 4, Delay |-> wd],
       [Data |-> 16 * nib + pins + bl, Delay |-> rd] >>

ByteFrame(data, pins, bl, wd, rd) ==
    NibbleFrame(data \div 16, pins, bl, wd, rd) \o NibbleFrame(data % 16, pins, bl, wd, rd)

\* The nibbles the controller latched: one per three raw transfers.
Nibbles(out) == [k \in 1..(Len(out) \div 3) |-> out[3 * k - 2].Data \div 16]

\* The k-th byte on the wire, put together from its two nibbles.
SentByte(k) == 16 * Nibbles(tx.out)[2 * k - 1] + Nibbles(tx.out)[2 * k]

BitOf(x, mask) == (x \div mask) % 2 = 1

(***************************************************************************)
(* C1: on an active session with geometry 16x2 or 20x4, SetPosition(line,  *)
(* pos) passes validation exactly when 0 <= pos <= width-1 and             *)
(* 0 <= line <= height-1, and then succeeds unless the transport fails;    *)
(* for every other (line, pos) it returns a validation error and makes no  *)
(* transport call.                                                         *)
(***************************************************************************)
C1_SetPositionBounds ==
    (Done("SetPosition") /\ lcd.active /\ Supported) =>
        LET inRange == /\ 0 <= args.pos /\ args.pos <= WidthOf(lcd.lcdType) - 1
                       /\ 0 <= args.line /\ args.line <= HeightOf(lcd.lcdType) - 1
        IN  /\ inRange => /\ result \in {nil, EIO}
                          /\ (result = nil) <=> NoFailureIn(6)
                          /\ NoFailureIn(6) => Len(tx.out) = 6
            /\ ~inRange => /\ result \in {ErrPos, ErrLine}
                           /\ tx.calls = 0
                           /\ tx.out = <<>>

C1_Witness ==
    /\ Done("SetPosition") /\ lcd.active /\ lcd.lcdType = LCD_16x2
    /\ args.pos = 16 /\ args.line = 1
    /\ result = ErrPos /\ tx.calls = 0

(***************************************************************************)
(* C2: on an active session with unknown geometry, SetPosition(line, pos)  *)
(* never fails on bounds and always transmits a position-set command, for  *)
(* every line and pos.                                                     *)
(***************************************************************************)
C2_UnknownGeometryAlwaysTransmits ==
    (Done("SetPosition") /\ lcd.active /\ lcd.lcdType = LCD_UNKNOWN) =>
        /\ result \in {nil, EIO}
        /\ tx.calls >= 1
        /\ NoFailureIn(6) => /\ result = nil
                             /\ Len(tx.out) = 6
                             /\ SentByte(1) >= CMD_DDRAM_Set

(***************************************************************************)
(* C3: on a session that Shutdown has made inactive, ShowMessage,          *)
(* SetPosition and Fill return success and make no transport call,         *)
(* whatever their arguments.                                               *)
(***************************************************************************)
C3_GatedAfterShutdown ==
    (pc = "ret" /\ op \in {"ShowMessage", "SetPosition", "Fill"} /\ ~lcd.active) =>
        /\ result = nil
        /\ tx.calls = 0
        /\ tx.out = <<>>

C3_Witness ==
    /\ Done("ShowMessage") /\ ~lcd.active /\ Supported
    /\ args.text = <<>> /\ args.options = SHOW_LINE_1 + SHOW_BLANK_PADDING
    /\ result = nil /\ tx.calls = 0

(***************************************************************************)
(* C4.  As claimed: on an inactive session Clear, Home, BacklightOn/Off,   *)
(* DisplayOn/Off, CursorOn/Off, BlinkOn/Off, ScrollDisplayLeft/Right,      *)
(* LeftRightDisplay, RightLeftDisplay, Write and Command return success    *)
(* without a transport call and without changing a snapshot or the         *)
(* backlight state.                                                        *)
(***************************************************************************)
UngatedOps ==
    {"Clear", "Home", "BacklightOn", "BacklightOff", "DisplayOn", "DisplayOff",
     "CursorOn", "CursorOff", "BlinkOn", "BlinkOff", "ScrollDisplayLeft",
     "ScrollDisplayRight", "LeftRightDisplay", "RightLeftDisplay", "Write", "Command"}

C4_InactiveAllNoOps ==
    [][(pc = "call" /\ constructed /\ ~lcd.active /\ op' \in UngatedOps) =>
          (result' = nil /\ tx'.calls = 0 /\ lcd' = lcd)]_vars

(***************************************************************************)
(* C4, amended: these methods do not test the activity state.  On an       *)
(* inactive session, when the transport does not fail, each returns        *)
(* success after six raw transfers per byte (Write: per byte of its        *)
(* buffer, and it returns the buffer's length), the session stays          *)
(* inactive, and the On/Off methods leave their bit of the display-control *)
(* snapshot, the entry-mode snapshot or the backlight state set or cleared *)
(* as on an active session.                                                *)
(***************************************************************************)
C4_InactiveStillTransmits ==
    (pc = "ret" /\ op \in UngatedOps /\ ~lcd.active) =>
        LET n == IF op = "Write" THEN Len(args.buf) ELSE 1
        IN  /\ NoFailureIn(6 * n) =>
                /\ result = nil
                /\ tx.calls = 6 * n
                /\ Len(tx.out) = 6 * n
                /\ op = "Write" => retN = n
            /\ op = "BacklightOn" => lcd.backlight
            /\ op = "BacklightOff" => ~lcd.backlight
            /\ op = "DisplayOn" => BitOf(lcd.displayControl, OPT_Enable_Display)
            /\ op = "DisplayOff" => ~BitOf(lcd.displayControl, OPT_Enable_Display)
            /\ op = "CursorOn" => BitOf(lcd.displayControl, OPT_Enable_Cursor)
            /\ op = "CursorOff" => ~BitOf(lcd.displayControl, OPT_Enable_Cursor)
            /\ op = "BlinkOn" => BitOf(lcd.displayControl, OPT_Enable_Blink)
            /\ op = "BlinkOff" => ~BitOf(lcd.displayControl, OPT_Enable_Blink)
            /\ op = "LeftRightDisplay" => BitOf(lcd.displayMode, OPT_EntryLeft)
            /\ op = "RightLeftDisplay" => ~BitOf(lcd.displayMode, OPT_EntryLeft)

C4_Witness ==
    /\ Done("Clear") /\ ~lcd.active
    /\ result = nil /\ tx.calls = 6 /\ SentByte(1) = CMD_Clear_Display

(***************************************************************************)
(* C5: when the transport does not fail, every writeByte(value, pins) call *)
(* of a method puts exactly six raw transfers on the wire, in this order:  *)
(* the high nibble of value in bits 7..4 with pins and the backlight bit   *)
(* and enable low, the same with enable high, the same with enable low,    *)
(* then the same three for the low nibble; each enable-high transfer is    *)
(* held for the session's write-strobe delay and each closing enable-low   *)
(* transfer for its reset-strobe delay, and these two delays are the ones  *)
(* SetStrobeDelays set last (200 and 30 microseconds before that).         *)
(***************************************************************************)
C5_FramesOfAllBytes ==
    (pc = "ret" /\ args.fails = {}) =>
        /\ Len(tx.out) = 6 * Len(tx.bytes)
        /\ tx.calls = Len(tx.out)
        /\ \A k \in 1..Len(tx.bytes) :
             SubSeq(tx.out, 6 * k - 5, 6 * k) =
                ByteFrame(tx.bytes[k].data, tx.bytes[k].pins,
                          IF lcd.backlight THEN PIN_BACKLIGHT ELSE 0,
                          lcd.writeStrobeDelay, lcd.resetStrobeDelay)

C5_DelaysAsSet ==
    /\ op' = "SetStrobeDelays" =>
          /\ lcd'.writeStrobeDelay = args'.writeDelay
          /\ lcd'.resetStrobeDelay = args'.resetDelay
    /\ (~constructed /\ constructed') =>
          /\ lcd'.writeStrobeDelay = 200
          /\ lcd'.resetStrobeDelay = 30
    /\ (constructed /\ op' # "SetStrobeDelays") =>
          /\ lcd'.writeStrobeDelay = lcd.writeStrobeDelay
          /\ lcd'.resetStrobeDelay = lcd.resetStrobeDelay

C5_NibbleFraming == [](C5_FramesOfAllBytes) /\ [][C5_DelaysAsSet]_vars

C5_Witness ==
    /\ Done("Write") /\ args.buf = <<245, 65>> /\ result = nil
    /\ lcd.backlight /\ lcd.writeStrobeDelay = 1 /\ lcd.resetStrobeDelay = 65535
    /\ Len(tx.out) = 12
    /\ tx.out[1].Data = 240 + PIN_RS + PIN_BACKLIGHT
    /\ tx.out[5] = [Data |-> 80 + PIN_RS + PIN_BACKLIGHT + PIN_EN, Delay |-> 1]

(***************************************************************************)
(* C6: after construction, each of DisplayOn, DisplayOff, CursorOn,        *)
(* CursorOff, BlinkOn and BlinkOff that the transport lets through         *)
(* transmits the single command byte 0x08 + 4*display + 2*cursor + blink,  *)
(* where each bit is set exactly when the last method called on that bit   *)
(* was its On variant (display on, cursor off, blink off after             *)
(* construction); so a method changes its own bit alone, and CursorOn      *)
(* followed by BlinkOn transmits a byte with both bits set.                *)
(***************************************************************************)
ControlOps == {"DisplayOn", "DisplayOff", "CursorOn", "CursorOff", "BlinkOn", "BlinkOff"}

B(flag) == IF flag THEN 1 ELSE 0

C6_ControlBytePersists ==
    (pc = "ret" /\ op \in ControlOps /\ result = nil) =>
        /\ Len(tx.out) = 6
        /\ SentByte(1) = 8 + 4 * B(recent.display) + 2 * B(recent.cursor) + B(recent.blink)
        /\ \A k \in 1..6 : tx.out[k].Data % 4 = 0

C6_Witness ==
    /\ Done("BlinkOn") /\ result = nil
    /\ recent.cursor /\ ~recent.display
    /\ SentByte(1) = 11

(***************************************************************************)
(* C7: each control-register snapshot (function set, display control,      *)
(* entry mode) equals the option bits of the last byte transmitted for     *)
(* its register.  It holds after construction, so it is stated stepwise:   *)
(* a method call leaves a snapshot equal to the option bits of the last    *)
(* command byte for that register it transmitted completely, and leaves    *)
(* the snapshot alone when it transmitted none (as when the transmission   *)
(* inside CursorOn fails).                                                 *)
(***************************************************************************)
\* The command bytes for the register with command bit base, in order.
CommandsFor(bytes, base) ==
    SelectSeq(bytes, LAMBDA b : b.pins = 0 /\ b.data >= base /\ b.data < 2 * base)

SnapshotFollows(bytes, base, before, after) ==
    LET c == CommandsFor(bytes, base)
    IN  IF c = <<>> THEN after = before
        ELSE after = c[Len(c)].data - base

C7_SnapshotsFollowTransmissions ==
    [][(pc = "call" /\ constructed /\ pc' = "ret") =>
          /\ SnapshotFollows(tx'.bytes, CMD_Function_Set,
                             lcd.displayFunction, lcd'.displayFunction)
          /\ SnapshotFollows(tx'.bytes, CMD_Display_Control,
                             lcd.displayControl, lcd'.displayControl)
          /\ SnapshotFollows(tx'.bytes, CMD_Entry_Mode,
                             lcd.displayMode, lcd'.displayMode)]_vars

(***************************************************************************)
(* C8: in every method but Shutdown, when a transport call fails the       *)
(* method returns the transport's error and makes no further transport     *)
(* call (the failed call is its last); NewLcd then returns no session, and *)
(* Write returns the number of bytes it transmitted completely before the  *)
(* failure.  A method returns the transport's error only then.             *)
(***************************************************************************)
\* A transport call of this method call failed: not every call was accepted.
TransportFailed == tx.calls > Len(tx.out)

C8_TransportErrorStops ==
    (pc = "ret" /\ op # "Shutdown") =>
        /\ TransportFailed =>
              /\ result = EIO
              /\ tx.calls = Len(tx.out) + 1
              /\ tx.calls \in args.fails
              /\ op = "NewLcd" => ~constructed /\ lcd = NoLcd
              /\ op = "Write" => /\ retN = Len(tx.out) \div 6
                                 /\ retN < Len(args.buf)
        /\ result = EIO => TransportFailed

C8_Witness ==
    /\ Done("Write") /\ args.buf = <<65, 245>> /\ args.fails = {7}
    /\ result = EIO /\ retN = 1 /\ tx.calls = 7 /\ Len(tx.out) = 6

(***************************************************************************)
(* C9.  As claimed: successful construction transmits the nibbles 3, 3, 3  *)
(* and 2, then function set, display control and entry mode, each of the   *)
(* three followed by a clear and a home.                                   *)
(***************************************************************************)
C9_ClearHomeAfterEach ==
    (Done("NewLcd") /\ result = nil) =>
        Nibbles(tx.out) = <<3, 3, 3, 2,
                            2, 8, 0, 1, 0, 2,
                            0, 12, 0, 1, 0, 2,
                            0, 6, 0, 1, 0, 2>>

(***************************************************************************)
(* C9, amended: successful construction transmits nine bytes, each as two  *)
(* nibbles with the high nibble first: 0x03 three times and 0x02 once      *)
(* (each reset nibble 3 and the 4-bit-mode nibble 2 follows a nibble 0),   *)
(* then function set 0x28, display control 0x0C and entry mode 0x06, and   *)
(* after these three one clear 0x01 and one home 0x02.  The session exists *)
(* only after all 54 raw transfers were accepted, no other method runs     *)
(* before, and construction leaves the snapshots 0x08, 0x04 and 0x02.      *)
(***************************************************************************)
C9_InitSequence ==
    /\ (Done("NewLcd") /\ result = nil) =>
          /\ Nibbles(tx.out) = <<0, 3, 0, 3, 0, 3, 0, 2,
                                 2, 8, 0, 12, 0, 6, 0, 1, 0, 2>>
          /\ Len(tx.out) = 54 /\ tx.calls = 54
          /\ \A k \in 1..54 : tx.out[k].Data % 16 = IF k % 3 = 2 THEN PIN_EN ELSE 0
          /\ lcd.displayFunction = 8 /\ lcd.displayControl = 4 /\ lcd.displayMode = 2
    /\ Done("NewLcd") => (constructed <=> result = nil)
    /\ (pc = "ret" /\ op # "NewLcd") => constructed

C9_Witness ==
    /\ Done("NewLcd") /\ result = nil /\ constructed
    /\ lcd.lcdType = LCD_20x4 /\ Len(tx.out) = 54

(***************************************************************************)
(* C10: Shutdown makes the session inactive before it transmits anything,  *)
(* then attempts backlight-off, clear and home in this order, each of them *)
(* also when an earlier one failed on the transport, reports no error and  *)
(* completes; every byte it transmits has the backlight bit clear, and the *)
(* session never becomes active again.                                     *)
(***************************************************************************)
\* Transport calls of a one-byte step that starts after the call `before`.
StepCalls(before) ==
    LET F == args.fails \cap ((before + 1)..(before + 6))
    IN  IF F = {} THEN 6 ELSE (CHOOSE k \in F : \A j \in F : k <= j) - before

\* Raw transfers such a step got accepted.
StepAccepted(before) ==
    IF args.fails \cap ((before + 1)..(before + 6)) = {}
    THEN 6 ELSE StepCalls(before) - 1

C10_ShutdownLog ==
    Done("Shutdown") =>
        LET wd == lcd.writeStrobeDelay
            rd == lcd.resetStrobeDelay
            c1 == StepCalls(0)
            c2 == StepCalls(c1)
            c3 == StepCalls(c1 + c2)
        IN  /\ ~lcd.active
            /\ ~lcd.backlight
            /\ result = nil
            /\ tx.calls = c1 + c2 + c3
            /\ tx.out = SubSeq(ByteFrame(0, 0, 0, wd, rd), 1, StepAccepted(0))
                        \o SubSeq(ByteFrame(CMD_Clear_Display, 0, 0, wd, rd),
                                  1, StepAccepted(c1))
                        \o SubSeq(ByteFrame(CMD_Return_Home, 0, 0, wd, rd),
                                  1, StepAccepted(c1 + c2))
            /\ \A k \in 1..Len(tx.out) : ~BitOf(tx.out[k].Data, PIN_BACKLIGHT)
            /\ \A k \in 1..Len(tx.bytes) : ~tx.bytes[k].active

C10_StaysInactive == (constructed /\ ~lcd.active) => ~lcd'.active

C10_Shutdown == [](C10_ShutdownLog) /\ [][C10_StaysInactive]_vars

C10_Witness ==
    /\ Done("Shutdown") /\ args.fails = {1, 13}
    /\ tx.calls = 13 /\ Len(tx.out) = 11
    /\ tx.out[1].Data = 0 /\ tx.out[6].Data = 16

(***************************************************************************)
(* C11: a validation error is returned before anything is transmitted:     *)
(* whenever SetPosition, ShowMessage or Fill returns an out-of-range error, *)
(* that call has made no transport call and has written nothing (also for  *)
(* ShowMessage on a 16x2 display whose line flags span lines beyond the     *)
(* display height).                                                        *)
(***************************************************************************)
C11_ValidationBeforeTransmission ==
    (pc = "ret" /\ op \in {"SetPosition", "ShowMessage", "Fill"}
                /\ result \in {ErrPos, ErrLine}) =>
        /\ tx.calls = 0
        /\ tx.out = <<>>

(***************************************************************************)
(* C12: in every transport write of every operation the backlight bit      *)
(* (0x08) is set when the session's backlight state is on and clear when   *)
(* it is off; the state is off after construction and changes only in      *)
(* BacklightOn and BacklightOff (Shutdown runs BacklightOff), whose own     *)
(* bytes already carry the new state.                                      *)
(***************************************************************************)
C12_BitFollowsState ==
    pc = "ret" =>
        \A k \in 1..Len(tx.out) :
            BitOf(tx.out[k].Data, PIN_BACKLIGHT) <=> lcd.backlight

C12_StateChanges ==
    /\ (~constructed /\ constructed') => ~lcd'.backlight
    /\ op' = "BacklightOn" => lcd'.backlight
    /\ op' \in {"BacklightOff", "Shutdown"} => ~lcd'.backlight
    /\ op' \notin {"BacklightOn", "BacklightOff", "Shutdown"} =>
           lcd'.backlight = lcd.backlight

C12_BacklightBit == [](C12_BitFollowsState) /\ [][C12_StateChanges]_vars

\* BacklightOn with a transport that accepts everything: all six transfers of
\* its byte carry the bit.
C12_Witness ==
    /\ Done("BacklightOn") /\ lcd.backlight
    /\ Len(tx.out) = 6
    /\ \A k \in 1..6 : tx.out[k].Data \in {PIN_BACKLIGHT, PIN_BACKLIGHT + PIN_EN}

(***************************************************************************)
(* Vocabulary of the layout properties.                                    *)
(***************************************************************************)
\* The lines (0..3) whose flag is set in the options o.
FlaggedLines(o) == {i \in 0..3 : BitOf(o, 2 ^ (i + 1))}

LowestFlagged(o) == CHOOSE i \in FlaggedLines(o) : \A k \in FlaggedLines(o) : i <= k

HighestFlagged(o) == CHOOSE i \in FlaggedLines(o) : \A k \in FlaggedLines(o) : i >= k

\* The number of lines from the lowest to the highest flagged one.
SpanOf(o) == HighestFlagged(o) - LowestFlagged(o) + 1

Min(a, b) == IF a <= b THEN a ELSE b

CeilDiv(a, b) == (a + b - 1) \div b

\* The k-th chunk of w characters of the text t (shorter where t ends).
Chunk(t, w, k) == SubSeq(t, (k - 1) * w + 1, Min(k * w, Len(t)))

Ellipsis(o) == BitOf(o, SHOW_ELIPSE_IF_NOT_FIT)

Padding(o) == BitOf(o, SHOW_BLANK_PADDING)

\* splitText has run on a display of known geometry with a line flag set.
LaidOut == Done("splitText") /\ Supported /\ FlaggedLines(args.options) # {}

(***************************************************************************)
(* C13: for a supported width w, at least one line flag and neither the    *)
(* ellipsis nor the padding option, the layout of a non-empty text has     *)
(* min(n, ceil(len(text)/w)) segments, n the number of lines from the      *)
(* lowest to the highest flagged line; segment k is the k-th chunk of w    *)
(* characters of the text (the last shorter when the text ends), no segment *)
(* is longer than w, and the text after the n-th chunk is dropped.         *)
(***************************************************************************)
C13_Chunks ==
    (LaidOut /\ ~Ellipsis(args.options) /\ ~Padding(args.options) /\ Len(args.text) > 0) =>
        LET w == WidthOf(lcd.lcdType)
            n == SpanOf(args.options)
        IN  /\ ~layout.panic
            /\ Len(layout.lines) = Min(n, CeilDiv(Len(args.text), w))
            /\ \A k \in 1..Len(layout.lines) :
                 /\ layout.lines[k] = Chunk(args.text, w, k)
                 /\ Len(layout.lines[k]) <= w

\* Lines 1 and 3 flagged on 16x2: three segments, the unflagged line 2
\* counted, the last one short.
C13_Witness ==
    /\ Done("splitText") /\ lcd.lcdType = LCD_16x2
    /\ args.options = SHOW_LINE_1 + SHOW_LINE_3
    /\ Len(args.text) = 40
    /\ Len(layout.lines) = 3
    /\ Len(layout.lines[3]) = 8

(***************************************************************************)
(* C14: for a supported width w and a range of n lines, when text remains  *)
(* after n segments and the ellipsis option is set, the layout has exactly *)
(* n segments of full width in which only the final character of the last  *)
(* segment is replaced by '~', all others being the characters of the text; *)
(* when the whole text fits in the n segments, no '~' is inserted whatever  *)
(* the options: every character is the text's, or a space after its end.   *)
(***************************************************************************)
C14_Ellipsis ==
    LaidOut =>
        LET w == WidthOf(lcd.lcdType)
            n == SpanOf(args.options)
            t == args.text
        IN  /\ (Len(t) > n * w /\ Ellipsis(args.options)) =>
                 /\ ~layout.panic
                 /\ Len(layout.lines) = n
                 /\ \A k \in 1..n :
                      /\ Len(layout.lines[k]) = w
                      /\ \A c \in 1..w :
                           layout.lines[k][c] =
                               IF k = n /\ c = w THEN 126 ELSE t[(k - 1) * w + c]
            /\ Len(t) <= n * w =>
                 \A k \in 1..Len(layout.lines) :
                     \A c \in 1..Len(layout.lines[k]) :
                         layout.lines[k][c] =
                             IF (k - 1) * w + c <= Len(t) THEN t[(k - 1) * w + c] ELSE 32

\* 41 characters for lines 2 and 3 of 20x4: the 40th is replaced.
C14_Witness ==
    /\ Done("splitText") /\ lcd.lcdType = LCD_20x4
    /\ args.options = SHOW_LINE_2 + SHOW_LINE_3 + SHOW_ELIPSE_IF_NOT_FIT
    /\ Len(args.text) = 41
    /\ Len(layout.lines) = 2
    /\ layout.lines[2][19] = args.text[39]
    /\ layout.lines[2][20] = 126

(***************************************************************************)
(* C15: for a supported width w and a range of n lines, when a non-empty   *)
(* text is used up within the n segments and the blank-padding option is   *)
(* set, the layout has exactly n segments, each of length exactly w: the   *)
(* text, spaces up to w in its last partial segment, and w spaces in every *)
(* remaining segment.                                                      *)
(***************************************************************************)
C15_Padding ==
    LET w == WidthOf(lcd.lcdType)
        n == SpanOf(args.options)
        t == args.text
    IN  (LaidOut /\ Padding(args.options) /\ Len(t) > 0 /\ Len(t) <= n * w) =>
            /\ ~layout.panic
            /\ Len(layout.lines) = n
            /\ \A k \in 1..n :
                 /\ Len(layout.lines[k]) = w
                 /\ \A c \in 1..w :
                      layout.lines[k][c] =
                          IF (k - 1) * w + c <= Len(t) THEN t[(k - 1) * w + c] ELSE 32

\* 21 characters for lines 1 to 3 of 20x4: one full segment, one character
\* with 19 spaces, and one blank segment.
C15_Witness ==
    /\ Done("splitText") /\ lcd.lcdType = LCD_20x4
    /\ args.options = SHOW_LINE_1 + SHOW_LINE_2 + SHOW_LINE_3 + SHOW_BLANK_PADDING
    /\ Len(args.text) = 21
    /\ Len(layout.lines) = 3
    /\ layout.lines[2] = <<args.text[21]>> \o [k \in 1..19 |-> 32]
    /\ layout.lines[3] = [k \in 1..20 |-> 32]

(***************************************************************************)
(* C16: the layout of the empty text with a supported geometry, a line     *)
(* flag set and the blank-padding option set completes normally and yields *)
(* no segments: no padding is applied.                                     *)
(***************************************************************************)
C16_EmptyTextNoSegments ==
    (LaidOut /\ Padding(args.options) /\ args.text = <<>>) =>
        /\ ~layout.panic
        /\ result = nil
        /\ layout.lines = <<>>

(***************************************************************************)
(* Vocabulary of the ShowMessage and Fill properties.                      *)
(***************************************************************************)
\* The position-set command for column 0 of a line, as the controller
\* defines it.
PositionByte(line) == 128 + <<0, 64, 20, 84>>[line + 1]

\* A byte sent to the instruction register / to the data register by an
\* active session.
CommandSent(b) == [data |-> b, pins |-> 0, active |-> TRUE]

DataSent(b) == [data |-> b, pins |-> PIN_RS, active |-> TRUE]

\* The characters of a segment as data bytes.
DataOf(line) == [k \in 1..Len(line) |-> DataSent(line[k])]

IsPrefix(s, t) == Len(s) <= Len(t) /\ s = SubSeq(t, 1, Len(s))

\* ShowMessage has run on an active session.
Shown == Done("ShowMessage") /\ lcd.active

(***************************************************************************)
(* C17: if no line flag is set, or the geometry is unknown, the layout is  *)
(* the single segment equal to the text, whatever its length, and          *)
(* ShowMessage transmits no position command, only the data bytes of the   *)
(* text in order.                                                          *)
(***************************************************************************)
C17_SingleSegmentNoPosition ==
    (Shown /\ (FlaggedLines(args.options) = {} \/ ~Supported)) =>
        /\ layout = [lines |-> <<args.text>>, panic |-> FALSE]
        /\ IsPrefix(tx.bytes, DataOf(args.text))
        /\ args.fails = {} => tx.bytes = DataOf(args.text)

\* The bytes of the segments from index i on, the first one on line first.
RECURSIVE SegmentBytes(_, _, _)
SegmentBytes(segments, first, i) ==
    IF i > Len(segments) THEN <<>>
    ELSE << CommandSent(PositionByte(first + i - 1)) >> \o DataOf(segments[i])
            \o SegmentBytes(segments, first, i + 1)

(***************************************************************************)
(* C18: on an active session with a supported geometry, a transport that   *)
(* accepts everything and line flags whose span lies within the display    *)
(* height, ShowMessage with a non-empty text transmits, for each segment   *)
(* index i in increasing order, one position-set command for column 0 of   *)
(* line lowestFlaggedLine + i (byte 0x80 + {0x00,0x40,0x14,0x54}[line]),    *)
(* immediately followed by one data-register byte per character of segment *)
(* i in text order, and nothing else.                                      *)
(***************************************************************************)
C18_SegmentsInOrder ==
    (/\ Shown /\ Supported /\ args.fails = {}
     /\ FlaggedLines(args.options) # {}
     /\ HighestFlagged(args.options) <= HeightOf(lcd.lcdType) - 1
     /\ args.text # <<>>) =>
        /\ result = nil
        /\ layout.lines # <<>>
        /\ tx.bytes = SegmentBytes(layout.lines, LowestFlagged(args.options), 1)
        /\ Len(tx.out) = 6 * Len(tx.bytes)
        /\ tx.calls = Len(tx.out)

\* 21 characters for lines 3 and 4 of 20x4: the position commands 0x94 and
\* 0xD4, each followed by its segment.
C18_Witness ==
    /\ Shown /\ lcd.lcdType = LCD_20x4 /\ args.fails = {}
    /\ args.options = SHOW_LINE_3 + SHOW_LINE_4
    /\ Len(args.text) = 21
    /\ Len(tx.bytes) = 23
    /\ tx.bytes[1] = CommandSent(148)
    /\ tx.bytes[21] = DataSent(args.text[20])
    /\ tx.bytes[22] = CommandSent(212)
    /\ tx.bytes[23] = DataSent(args.text[21])

(***************************************************************************)
(* C19: on an active session with a transport that accepts everything,     *)
(* Fill(char) with a supported geometry transmits, for each line           *)
(* 0..height-1 in increasing order, one position-set command for (line, 0) *)
(* followed by exactly width data-register bytes carrying char (height *   *)
(* width data bytes in total); with unknown geometry Fill returns success  *)
(* and writes nothing to the transport.                                    *)
(***************************************************************************)
C19_Fill ==
    (Done("Fill") /\ lcd.active /\ args.fails = {}) =>
        LET w == WidthOf(lcd.lcdType)
            h == HeightOf(lcd.lcdType)
            row == [c \in 1..w |-> args.char % 256]
        IN  /\ result = nil
            /\ Supported =>
                 /\ tx.bytes = SegmentBytes([k \in 1..h |-> row], 0, 1)
                 /\ Cardinality({k \in 1..Len(tx.bytes) : tx.bytes[k].pins = PIN_RS}) = h * w
                 /\ Len(tx.out) = 6 * (h + h * w)
                 /\ tx.calls = Len(tx.out)
            /\ ~Supported =>
                 /\ tx.calls = 0
                 /\ tx.out = <<>>

\* Fill('*') on 16x2: 2 position commands and 32 data bytes.
C19_Witness ==
    /\ Done("Fill") /\ lcd.active /\ lcd.lcdType = LCD_16x2
    /\ args.fails = {} /\ args.char = 42
    /\ result = nil
    /\ Len(tx.bytes) = 34
    /\ tx.bytes[1] = CommandSent(128)
    /\ tx.bytes[17] = DataSent(42)
    /\ tx.bytes[18] = CommandSent(192)
    /\ tx.bytes[34] = DataSent(42)

(***************************************************************************)
(* C20: on an active session ShowMessage completes for every text and      *)
(* every option value, with success or with a propagated transport or      *)
(* validation error; with the empty text, whose layout has no segments, it *)
(* returns success without transmitting a data byte and never reads a      *)
(* segment index outside the segments.                                     *)
(***************************************************************************)
C20_ShowMessageCompletes ==
    Shown =>
        /\ result \in {nil, EIO, ErrPos, ErrLine}
        /\ args.text = <<>> =>
             /\ result = nil
             /\ \A k \in 1..Len(tx.bytes) : tx.bytes[k].pins # PIN_RS

====
